---------------------------- MODULE Spec2Model ----------------------------
(***************************************************************************)
(* A model of the Redis clone: the key space (internal/database), the      *)
(* command dispatcher (internal/server/commands.go, server.go), and the    *)
(* persistence manager (internal/persistence).                             *)
(*                                                                         *)
(* Go strings are modelled as sequences of symbols (a symbol is one        *)
(* character, or one fixed multi-character token such as "__ttl__"), so    *)
(* that concatenation, integer parsing and integer formatting are          *)
(* computed rather than assumed.                                           *)
(***************************************************************************)
EXTENDS Integers, Sequences, FiniteSets, TLC

(***************************************************************************)
(* Bounds of the model.                                                    *)
(***************************************************************************)
\* width of the machine integer that stands for Go's int64
IntBits == 3
\* clock ticks per second: the clock is finer than the unit of EXPIRE
TicksPerSec == 2
\* the clock stops advancing at MaxTime ticks
MaxTime == 3

MaxInt64 == 2 ^ (IntBits - 1) - 1
MinInt64 == -(2 ^ (IntBits - 1))

(***************************************************************************)
(* Strings.                                                                *)
(***************************************************************************)
Digits == <<"0", "1", "2", "3", "4", "5", "6", "7", "8", "9">>

IsDigit(ch) == \E i \in 1..10 : Digits[i] = ch

DigitVal(ch) == (CHOOSE i \in 1..10 : Digits[i] = ch) - 1

Min(a, b) == IF a < b THEN a ELSE b

\* strconv.ParseUint(s, 10, 64), saturating one above the largest magnitude
\* an int64 can hold (that is all ParseInt needs to tell a range error)
RECURSIVE ParseUintFrom(_, _, _)
ParseUintFrom(s, i, acc) ==
    IF i > Len(s) THEN [ok |-> TRUE, num |-> acc]
    ELSE IF ~IsDigit(s[i]) THEN [ok |-> FALSE, num |-> 0]
    ELSE ParseUintFrom(s, i + 1, Min(acc * 10 + DigitVal(s[i]), -MinInt64 + 1))

\* strconv.ParseInt(s, 10, 64) and strconv.Atoi(s): an optional sign, then
\* decimal digits; a syntax error or a value out of range is an error
ParseInt(s) ==
    IF Len(s) = 0 THEN [ok |-> FALSE, num |-> 0]
    ELSE LET neg  == s[1] = "-"
             from == IF s[1] \in {"-", "+"} THEN 2 ELSE 1
             un   == ParseUintFrom(s, from, 0)
         IN  IF from > Len(s) \/ ~un.ok THEN [ok |-> FALSE, num |-> 0]
             ELSE IF ~neg /\ un.num > MaxInt64 THEN [ok |-> FALSE, num |-> MaxInt64]
             ELSE IF neg /\ un.num > -MinInt64 THEN [ok |-> FALSE, num |-> MinInt64]
             ELSE [ok |-> TRUE, num |-> IF neg THEN -un.num ELSE un.num]

RECURSIVE FormatUint(_)
FormatUint(n) ==
    IF n < 10 THEN <<Digits[n + 1]>>
    ELSE FormatUint(n \div 10) \o <<Digits[(n % 10) + 1]>>

\* strconv.FormatInt(n, 10)
FormatInt(n) == IF n < 0 THEN <<"-">> \o FormatUint(-n) ELSE FormatUint(n)

\* int64 arithmetic wraps around silently (Go spec, integer overflow)
WrapInt64(n) ==
    IF n > MaxInt64 THEN n - 2 ^ IntBits
    ELSE IF n < MinInt64 THEN n + 2 ^ IntBits
    ELSE n

(***************************************************************************)
(* Maps (Go's map[string]T): functions with a finite, varying domain.      *)
(***************************************************************************)
EmptyMap == <<>>

MapPut(m, k, v) == [x \in (DOMAIN m) \cup {k} |-> IF x = k THEN v ELSE m[x]]

MapDel(m, k) == [x \in (DOMAIN m) \ {k} |-> m[x]]

(***************************************************************************)
(* internal/database: the key space.  A database value db is the record    *)
(* [data, expiry] of the two maps of struct Database; every operator is    *)
(* one method, taken as a whole (the method holds db.mu throughout), and   *)
(* returns the database it leaves together with its results.  now is the   *)
(* reading of time.Now() in ticks.                                         *)
(***************************************************************************)
StringType == "string"
HashType == "hash"

NewDatabase == [data |-> EmptyMap, expiry |-> EmptyMap]

\* &Value{Type: StringType, StrVal: value}
StringValue(value) == [Type |-> StringType, StrVal |-> value, HashVal |-> EmptyMap]

isExpired(db, key, now) ==
    /\ key \in DOMAIN db.expiry
    /\ now > db.expiry[key]

\* delete(db.data, key); delete(db.expiry, key)
Remove(db, key) == [data |-> MapDel(db.data, key), expiry |-> MapDel(db.expiry, key)]

\* Set that leaves an older expiry of the key in place
Set_KeepExpiry(db, key, value) ==
    [data |-> MapPut(db.data, key, StringValue(value)), expiry |-> db.expiry]

\* Set that does not replace the value of a key that is there
Set_IfAbsent(db, key, value) ==
    IF key \in DOMAIN db.data THEN db
    ELSE [data |-> MapPut(db.data, key, StringValue(value)),
          expiry |-> MapDel(db.expiry, key)]

Set(db, key, value) ==
    [data |-> MapPut(db.data, key, StringValue(value)),
     expiry |-> MapDel(db.expiry, key)]

Get(db, key, now) ==
    IF isExpired(db, key, now)
    THEN [db |-> Remove(db, key), val |-> <<>>, ok |-> FALSE]
    ELSE IF key \notin DOMAIN db.data \/ db.data[key].Type # StringType
    THEN [db |-> db, val |-> <<>>, ok |-> FALSE]
    ELSE [db |-> db, val |-> db.data[key].StrVal, ok |-> TRUE]

\* Del that forgets the key's entry in the expiry index
Del_KeepExpiry(db, key) ==
    IF key \in DOMAIN db.data
    THEN [db |-> [db EXCEPT !.data = MapDel(db.data, key)], ok |-> TRUE]
    ELSE [db |-> db, ok |-> FALSE]

Del(db, key) ==
    IF key \in DOMAIN db.data
    THEN [db |-> Remove(db, key), ok |-> TRUE]
    ELSE [db |-> db, ok |-> FALSE]

Exists(db, key, now) ==
    IF isExpired(db, key, now)
    THEN [db |-> Remove(db, key), ok |-> FALSE]
    ELSE [db |-> db, ok |-> key \in DOMAIN db.data]

\* Expire without the test that the key is there
Expire_NoExistCheck(db, key, seconds, now) ==
    [db |-> [db EXCEPT !.expiry = MapPut(db.expiry, key, now + seconds * TicksPerSec)],
     ok |-> TRUE]

Expire(db, key, seconds, now) ==
    IF key \notin DOMAIN db.data
    THEN [db |-> db, ok |-> FALSE]
    ELSE [db |-> [db EXCEPT !.expiry = MapPut(db.expiry, key, now + seconds * TicksPerSec)],
          ok |-> TRUE]

\* remaining is expiry.Sub(now).Seconds(), a float; int64(remaining)
\* truncates it, and remaining is positive where it is converted
\* TTL without the branch for an expiry that has passed; the conversion to
\* int64 truncates toward zero
TTL_NoExpiredBranch(db, key, now) ==
    IF key \notin DOMAIN db.data THEN [db |-> db, ttl |-> -2]
    ELSE IF key \notin DOMAIN db.expiry THEN [db |-> db, ttl |-> -1]
    ELSE LET remaining == db.expiry[key] - now
         IN  [db |-> db,
              ttl |-> IF remaining < 0 THEN -((-remaining) \div TicksPerSec)
                      ELSE remaining \div TicksPerSec]

TTL(db, key, now) ==
    IF key \notin DOMAIN db.data THEN [db |-> db, ttl |-> -2]
    ELSE IF key \notin DOMAIN db.expiry THEN [db |-> db, ttl |-> -1]
    ELSE LET remaining == db.expiry[key] - now
         IN  IF remaining <= 0
             THEN [db |-> Remove(db, key), ttl |-> -2]
             ELSE [db |-> db, ttl |-> remaining \div TicksPerSec]

\* the keys of the slice Keys returns; its order is the map's iteration order
Keys(db, now) == {key \in DOMAIN db.data : ~isExpired(db, key, now)}

\* cleanupExpired with now >= expiry in place of now.After(expiry)
cleanupExpired_NotAfter(db, now) ==
    LET expiredKeys == {key \in DOMAIN db.expiry : now >= db.expiry[key]}
    IN  [data |-> [key \in (DOMAIN db.data) \ expiredKeys |-> db.data[key]],
         expiry |-> [key \in (DOMAIN db.expiry) \ expiredKeys |-> db.expiry[key]]]

cleanupExpired(db, now) ==
    LET expiredKeys == {key \in DOMAIN db.expiry : now > db.expiry[key]}
    IN  [data |-> [key \in (DOMAIN db.data) \ expiredKeys |-> db.data[key]],
         expiry |-> [key \in (DOMAIN db.expiry) \ expiredKeys |-> db.expiry[key]]]

\* an existing value of another type is turned into a hash in place: its
\* StrVal field stays, its expiry entry stays
HSet(db, key, field, value) ==
    LET val == IF key \notin DOMAIN db.data
               THEN [Type |-> HashType, StrVal |-> <<>>, HashVal |-> EmptyMap]
               ELSE IF db.data[key].Type # HashType
               THEN [db.data[key] EXCEPT !.Type = HashType, !.HashVal = EmptyMap]
               ELSE db.data[key]
    IN  [db EXCEPT !.data = MapPut(db.data, key,
                                   [val EXCEPT !.HashVal = MapPut(val.HashVal, field, value)])]

HGet(db, key, field, now) ==
    IF isExpired(db, key, now) THEN [val |-> <<>>, ok |-> FALSE]
    ELSE IF key \notin DOMAIN db.data \/ db.data[key].Type # HashType
    THEN [val |-> <<>>, ok |-> FALSE]
    ELSE IF field \in DOMAIN db.data[key].HashVal
    THEN [val |-> db.data[key].HashVal[field], ok |-> TRUE]
    ELSE [val |-> <<>>, ok |-> FALSE]

HDel(db, key, field) ==
    IF key \notin DOMAIN db.data \/ db.data[key].Type # HashType
    THEN [db |-> db, ok |-> FALSE]
    ELSE IF field \in DOMAIN db.data[key].HashVal
    THEN [db |-> [db EXCEPT !.data[key].HashVal = MapDel(db.data[key].HashVal, field)],
          ok |-> TRUE]
    ELSE [db |-> db, ok |-> FALSE]

(***************************************************************************)
(* internal/protocol: the values a command returns.  Str is a string; the  *)
(* fixed texts of the program (OK, PONG, the error messages) are one       *)
(* symbol each.                                                            *)
(***************************************************************************)
RESPValue(type, str, num, null, array) ==
    [Type |-> type, Str |-> str, Num |-> num, Null |-> null, Array |-> array]

SimpleString(str) == RESPValue("+", str, 0, FALSE, {})
Error(str) == RESPValue("-", str, 0, FALSE, {})
Integer(num) == RESPValue(":", <<>>, num, FALSE, {})
BulkString(str) == RESPValue("$", str, 0, FALSE, {})
NullBulk == RESPValue("$", <<>>, 0, TRUE, {})
\* the elements of an array reply are bulk strings; keys is their set, the
\* order being the map's iteration order
ArrayOf(keys) == RESPValue("*", <<>>, 0, FALSE, keys)

ErrArgs(name) == Error(<<"ERR wrong number of arguments for command", name>>)
ErrNotInt == Error(<<"ERR value is not an integer or out of range">>)
ErrUnknown(command) == Error(<<"ERR unknown command", command>>)

(***************************************************************************)
(* internal/server/commands.go: the handlers.  Each takes the database,    *)
(* the arguments and the clock, and returns [db, resp].  A handler that    *)
(* calls several Database methods is their composition: this is the        *)
(* handler run with no other task in between.                              *)
(***************************************************************************)
Tail2(args) == SubSeq(args, 2, Len(args))

handlePing(db, args) ==
    IF Len(args) = 0 THEN [db |-> db, resp |-> SimpleString(<<"PONG">>)]
    ELSE [db |-> db, resp |-> BulkString(args[1])]

handleSet(db, args) ==
    IF Len(args) < 2 THEN [db |-> db, resp |-> ErrArgs("set")]
    ELSE [db |-> Set(db, args[1], args[2]), resp |-> SimpleString(<<"OK">>)]

handleGet(db, args, now) ==
    IF Len(args) # 1 THEN [db |-> db, resp |-> ErrArgs("get")]
    ELSE LET r == Get(db, args[1], now)
         IN  [db |-> r.db, resp |-> IF r.ok THEN BulkString(r.val) ELSE NullBulk]

\* for _, key := range args { if s.db.Del(key) { deleted++ } }
RECURSIVE DelEach(_, _, _)
DelEach(db, keys, deleted) ==
    IF Len(keys) = 0 THEN [db |-> db, n |-> deleted]
    ELSE LET r == Del(db, Head(keys))
         IN  DelEach(r.db, Tail(keys), IF r.ok THEN deleted + 1 ELSE deleted)

handleDel(db, args) ==
    IF Len(args) = 0 THEN [db |-> db, resp |-> ErrArgs("del")]
    ELSE LET r == DelEach(db, args, 0)
         IN  [db |-> r.db, resp |-> Integer(r.n)]

RECURSIVE ExistsEach(_, _, _, _)
ExistsEach(db, keys, count, now) ==
    IF Len(keys) = 0 THEN [db |-> db, n |-> count]
    ELSE LET r == Exists(db, Head(keys), now)
         IN  ExistsEach(r.db, Tail(keys), IF r.ok THEN count + 1 ELSE count, now)

handleExists(db, args, now) ==
    IF Len(args) = 0 THEN [db |-> db, resp |-> ErrArgs("exists")]
    ELSE LET r == ExistsEach(db, args, 0, now)
         IN  [db |-> r.db, resp |-> Integer(r.n)]

handleExpire(db, args, now) ==
    IF Len(args) # 2 THEN [db |-> db, resp |-> ErrArgs("expire")]
    ELSE LET seconds == ParseInt(args[2])
         IN  IF ~seconds.ok THEN [db |-> db, resp |-> ErrNotInt]
             ELSE LET r == Expire(db, args[1], seconds.num, now)
                  IN  [db |-> r.db, resp |-> Integer(IF r.ok THEN 1 ELSE 0)]

handleTTL(db, args, now) ==
    IF Len(args) # 1 THEN [db |-> db, resp |-> ErrArgs("ttl")]
    ELSE LET r == TTL(db, args[1], now)
         IN  [db |-> r.db, resp |-> Integer(r.ttl)]

handleKeys(db, args, now) == [db |-> db, resp |-> ArrayOf(Keys(db, now))]

handleHSet(db, args) ==
    IF Len(args) # 3 THEN [db |-> db, resp |-> ErrArgs("hset")]
    ELSE [db |-> HSet(db, args[1], args[2], args[3]), resp |-> Integer(1)]

handleHGet(db, args, now) ==
    IF Len(args) # 2 THEN [db |-> db, resp |-> ErrArgs("hget")]
    ELSE LET r == HGet(db, args[1], args[2], now)
         IN  [db |-> db, resp |-> IF r.ok THEN BulkString(r.val) ELSE NullBulk]

RECURSIVE HDelEach(_, _, _, _)
HDelEach(db, key, fields, deleted) ==
    IF Len(fields) = 0 THEN [db |-> db, n |-> deleted]
    ELSE LET r == HDel(db, key, Head(fields))
         IN  HDelEach(r.db, key, Tail(fields), IF r.ok THEN deleted + 1 ELSE deleted)

handleHDel(db, args) ==
    IF Len(args) < 2 THEN [db |-> db, resp |-> ErrArgs("hdel")]
    ELSE LET r == HDelEach(db, args[1], Tail2(args), 0)
         IN  [db |-> r.db, resp |-> Integer(r.n)]

\* handleIncr (delta = 1) and handleDecr (delta = -1) after their Get
\* returned g = [val, ok]: ParseInt, intValue++ or intValue--, Set
\* handleIncr that counts a value it cannot parse as 0
IncrWrite_ParseErrorAsZero(db, key, g, delta) ==
    LET p == IF g.ok THEN ParseInt(g.val) ELSE [ok |-> TRUE, num |-> 0]
        intValue == WrapInt64((IF p.ok THEN p.num ELSE 0) + delta)
    IN  [db |-> Set(db, key, FormatInt(intValue)), resp |-> Integer(intValue)]

IncrWrite(db, key, g, delta) ==
    LET p == IF g.ok THEN ParseInt(g.val) ELSE [ok |-> TRUE, num |-> 0]
    IN  IF ~p.ok THEN [db |-> db, resp |-> ErrNotInt]
        ELSE LET intValue == WrapInt64(p.num + delta)
             IN  [db |-> Set(db, key, FormatInt(intValue)), resp |-> Integer(intValue)]

\* the whole of handleIncr or handleDecr, with no other task between its
\* Get and its Set
IncrBy(db, key, delta, now) ==
    LET g == Get(db, key, now)
    IN  IncrWrite(g.db, key, g, delta)

handleIncr(db, args, now) ==
    IF Len(args) # 1 THEN [db |-> db, resp |-> ErrArgs("incr")]
    ELSE IncrBy(db, args[1], 1, now)

handleDecr(db, args, now) ==
    IF Len(args) # 1 THEN [db |-> db, resp |-> ErrArgs("decr")]
    ELSE IncrBy(db, args[1], -1, now)

\* strings.ToUpper on the verbs the model sends
ToUpper(verb) ==
    CASE verb = "set" -> "SET"
      [] verb = "get" -> "GET"
      [] OTHER -> verb

isWriteCommand(command) ==
    command \in {"SET", "DEL", "EXPIRE", "HSET", "HDEL", "INCR", "DECR"}

\* the switch of executeCommand; a request is [verb, args]
Dispatch(db, command, args, now) ==
    CASE command = "PING" -> handlePing(db, args)
      [] command = "SET" -> handleSet(db, args)
      [] command = "GET" -> handleGet(db, args, now)
      [] command = "DEL" -> handleDel(db, args)
      [] command = "EXISTS" -> handleExists(db, args, now)
      [] command = "EXPIRE" -> handleExpire(db, args, now)
      [] command = "TTL" -> handleTTL(db, args, now)
      [] command = "KEYS" -> handleKeys(db, args, now)
      [] command = "HSET" -> handleHSet(db, args)
      [] command = "HGET" -> handleHGet(db, args, now)
      [] command = "HDEL" -> handleHDel(db, args)
      [] command = "INCR" -> handleIncr(db, args, now)
      [] command = "DECR" -> handleDecr(db, args, now)
      [] OTHER -> [db |-> db, resp |-> ErrUnknown(command)]

\* cmdStr := command; for _, arg := range args { cmdStr += " " + arg }
RECURSIVE JoinArgs(_)
JoinArgs(args) ==
    IF Len(args) = 0 THEN <<>> ELSE <<" ">> \o Head(args) \o JoinArgs(Tail(args))

cmdStr(command, args) == <<command>> \o JoinArgs(args)

(***************************************************************************)
(* internal/persistence: the manager.  The files are values: aofDisk is    *)
(* the sequence of lines of appendonly.aof, an rdb file is                 *)
(* [exists, sections, meta, data] with data the gob-encoded                *)
(* map[string]interface{}, whose values are a string or an int64, and      *)
(* sections the number of gob values the file holds: 0 for a file just     *)
(* created, 1 with the metadata, 2 with the metadata and the data.         *)
(***************************************************************************)
NoFile == [exists |-> FALSE, sections |-> 0, meta |-> EmptyMap, data |-> EmptyMap]

GobString(str) == [kind |-> "string", str |-> str, num |-> 0]
GobInt64(num) == [kind |-> "int64", str |-> <<>>, num |-> num]

\* key + "__ttl__"
TtlName(key) == key \o <<"__ttl__">>

\* WriteAOF(command): pm is [aofEnabled, aofFile]; ioOk tells whether the
\* file system lets the open and the write succeed.  A bufio.Writer whose
\* write failed keeps its error ("broken").  Returns the manager, the file
\* and the error.
WriteAOF(pm, disk, command, ioOk) ==
    IF ~pm.aofEnabled THEN [pm |-> pm, disk |-> disk, err |-> FALSE]
    ELSE IF pm.aofFile = "nil" /\ ~ioOk THEN [pm |-> pm, disk |-> disk, err |-> TRUE]
    ELSE IF pm.aofFile = "closed" THEN [pm |-> pm, disk |-> disk, err |-> TRUE]
    ELSE IF pm.aofFile = "broken" \/ ~ioOk
    THEN [pm |-> [pm EXCEPT !.aofFile = "broken"], disk |-> disk, err |-> TRUE]
    ELSE [pm |-> [pm EXCEPT !.aofFile = "open"], disk |-> Append(disk, command),
          err |-> FALSE]

\* Close: the writer is flushed and the file is closed when there is one;
\* neither field is set to nil, so that a later WriteAOF writes to the
\* closed file and fails, and one on a manager that never opened the file
\* opens it
Close(pm) ==
    IF pm.aofFile = "nil" THEN pm ELSE [pm EXCEPT !.aofFile = "closed"]

\* the body of the loop of SaveRDB for one key
SaveKey(acc, key, now) ==
    LET g == Get(acc.db, key, now)
        d1 == IF g.ok THEN MapPut(acc.data, key, GobString(g.val)) ELSE acc.data
        t == TTL(g.db, key, now)
        d2 == IF t.ttl > 0 THEN MapPut(d1, TtlName(key), GobInt64(t.ttl)) ELSE d1
    IN  [db |-> t.db, data |-> d2]

RECURSIVE SaveKeys(_, _, _)
SaveKeys(acc, keys, now) ==
    IF Len(keys) = 0 THEN acc
    ELSE SaveKeys(SaveKey(acc, Head(keys), now), Tail(keys), now)

\* SaveRDB with the slice keys as db.Keys() returned it.  Returns the
\* database (Get and TTL expire lazily) and the file written.
SaveRDB(db, keys, now) ==
    LET r == SaveKeys([db |-> db, data |-> EmptyMap], keys, now)
    IN  [db |-> r.db,
         file |-> [exists |-> TRUE, sections |-> 2,
                   meta |-> [version |-> <<"1.0">>, timestamp |-> now \div TicksPerSec],
                   data |-> r.data]]

\* the loop of LoadRDB: every entry whose value is a string is Set
RECURSIVE LoadEntries(_, _, _)
LoadEntries(db, data, names) ==
    IF names = {} THEN db
    ELSE LET name == CHOOSE n \in names : TRUE
             next == IF data[name].kind = "string"
                     THEN Set(db, name, data[name].str)
                     ELSE db
         IN  LoadEntries(next, data, names \ {name})

\* LoadRDB: a file that cannot be opened is an error and loads nothing,
\* and so is a file one of whose two gob values cannot be decoded
LoadRDB(db, rdbEnabled, file) ==
    IF ~rdbEnabled THEN [db |-> db, err |-> FALSE]
    ELSE IF ~file.exists THEN [db |-> db, err |-> TRUE]
    ELSE IF file.sections < 2 THEN [db |-> db, err |-> TRUE]
    ELSE [db |-> LoadEntries(db, file.data, DOMAIN file.data), err |-> FALSE]

\* LoadAOF: every line is printed, none is executed
LoadAOF(db, aofEnabled, disk) == [db |-> db, err |-> FALSE]

\* all the orders in which a map's keys can be ranged over
Orders(keys) ==
    {order \in [1..Cardinality(keys) -> keys] :
        \A i, j \in 1..Cardinality(keys) : i # j => order[i] # order[j]}

(***************************************************************************)
(* executeCommand, run by one connection with no other task in between:    *)
(* the verb is upper-cased, a write command is logged (the error WriteAOF  *)
(* returns is dropped), and the handler is run.  A request is the record   *)
(* [verb, args].                                                           *)
(***************************************************************************)
executeCommand(db, pm, disk, cmd, now, ioOk) ==
    LET command == ToUpper(cmd.verb)
        w == IF isWriteCommand(command)
             THEN WriteAOF(pm, disk, cmdStr(command, cmd.args), ioOk)
             ELSE [pm |-> pm, disk |-> disk, err |-> FALSE]
        r == Dispatch(db, command, cmd.args, now)
    IN  [db |-> r.db, pm |-> w.pm, disk |-> w.disk, aofErr |-> w.err, resp |-> r.resp]

(***************************************************************************)
(* The state.                                                              *)
(***************************************************************************)
VARIABLES
    data,        \* Database.data
    expiry,      \* Database.expiry
    now,         \* the clock, in ticks
    aofEnabled,  \* Manager.aofEnabled
    rdbEnabled,  \* Manager.rdbEnabled
    aofFile,     \* Manager.aofFile and its writer: "nil", "open" or "broken"
    aofDisk,     \* the lines of appendonly.aof
    rdbDisk,     \* dump.rdb
    last,        \* history: the last write command executed, with its reply
    everSet,     \* history: the keys that were ever given a string value
    preCrash,    \* history: the key space as the last process left it
    sinceSave,   \* history: "none", or "clean" from a SaveRDB to the next
                 \* change of the key space or of the clock ("dirty")
    recovered,   \* TRUE once the process was restarted and Start has loaded
    pc,          \* per connection: where its goroutine stands
    cur,         \* per connection: the request it is executing
    got,         \* per connection: what the Get of INCR/DECR returned
    hist,        \* history, per connection: its requests answered so far
    inAOF,       \* the connections inside WriteAOF, each with "alone" or "raced"
    applied,     \* history: the write commands in the order they took effect
    order,       \* history, real-time order of the SETs (see RecvOf and Reply)
    inbuf,       \* one connection on the wire: the bytes sent and not yet read
    conn,        \* that connection: "open", "eof" (the client closed), "closed"
    sent,        \* the frames the client has sent on it
    wire,        \* history of that connection (see Serve)
    savePc,      \* where the goroutine of StartBackgroundSave stands in SaveRDB
    server,      \* the process: "listening" or "fatal"
    stdout,      \* the warnings the process has printed
    mu,          \* db.mu: the task that holds it locked, the tasks that hold it read-locked
    snap,        \* one SaveRDB at the grain of its calls of the database
    shut,        \* Server.Shutdown: how far it is, and what ran during it
    codec        \* one value on its way through Serialize and RESPParser.Parse

dbVars == <<data, expiry>>
pmVars == <<aofEnabled, rdbEnabled, aofFile, aofDisk, rdbDisk>>
histVars == <<last, everSet, preCrash, sinceSave, recovered>>
concVars == <<pc, cur, got, hist, inAOF, applied, order>>
wireVars == <<inbuf, conn, sent, wire>>
procVars == <<savePc, server, stdout>>
taskVars == <<mu, snap, shut, codec>>
vars == <<dbVars, now, pmVars, histVars, concVars, wireVars, procVars, taskVars>>

\* the connections of the concurrent specification
Clients == {"c1", "c2"}

\* db.mu unlocked; no SaveRDB under way; Shutdown not called
NoLock == [writer |-> "", readers |-> {}]

NoSnap == [pc |-> "idle", keys |-> <<>>, data |-> EmptyMap, seen |-> {}]

NoCodec == [pc |-> "idle", value |-> <<>>, bytes |-> <<>>, parsed |-> <<>>]

NoShut == [phase |-> "running", cmd |-> "", mut |-> "", wal |-> "", sweep |-> "",
           save |-> ""]

DB == [data |-> data, expiry |-> expiry]
PM == [aofEnabled |-> aofEnabled, aofFile |-> aofFile]

\* nothing was served on the connection yet
NoWire == [protoErr |-> FALSE, afterErr |-> FALSE, cmd |-> <<>>, resp |-> NullBulk,
           changed |-> FALSE, conn |-> "open"]

\* Server.Start: fmt.Printf("Warning: Could not load RDB file: %v\n", err)
WarnRDB == "Warning: Could not load RDB file"
WarnAOF == "Warning: Could not load AOF file"

NoRequest == [verb |-> "", args |-> <<>>, resp |-> NullBulk, aofErr |-> FALSE]

InitWith(aof, rdb) ==
    /\ data = EmptyMap
    /\ expiry = EmptyMap
    /\ now = 0
    /\ aofEnabled = aof
    /\ rdbEnabled = rdb
    /\ aofFile = "nil"
    /\ aofDisk = <<>>
    /\ rdbDisk = NoFile
    /\ last = NoRequest
    /\ everSet = {}
    /\ preCrash = NewDatabase
    /\ sinceSave = "none"
    /\ recovered = FALSE
    /\ inbuf = <<>>
    /\ conn = "open"
    /\ sent = 0
    /\ wire = NoWire
    /\ savePc = "idle"
    /\ server = "listening"
    /\ stdout = {}
    /\ mu = NoLock
    /\ snap = NoSnap
    /\ shut = NoShut
    /\ codec = NoCodec
    /\ pc = [c \in Clients |-> "read"]
    /\ cur = [c \in Clients |-> NoRequest]
    /\ got = [c \in Clients |-> [val |-> <<>>, ok |-> FALSE]]
    /\ hist = [c \in Clients |-> <<>>]
    /\ inAOF = EmptyMap
    /\ applied = <<>>
    /\ order = [invoked |-> {}, returned |-> {}, superseded |-> {}, dup |-> FALSE,
                seen |-> [c \in Clients |-> {}]]

IsError(resp) == resp.Type = "-"

Touched(db) == IF db = DB THEN sinceSave ELSE IF sinceSave = "none" THEN "none" ELSE "dirty"

\* one turn of the loop of handleConnection: a request is read, executed
\* and answered
Request(cmd, ioOk) ==
    LET command == ToUpper(cmd.verb)
        r == executeCommand(DB, PM, aofDisk, cmd, now, ioOk)
    IN  /\ ~recovered
        /\ data' = r.db.data
        /\ expiry' = r.db.expiry
        /\ aofFile' = r.pm.aofFile
        /\ aofDisk' = r.disk
        /\ last' = IF isWriteCommand(command)
                   THEN [verb |-> command, args |-> cmd.args, resp |-> r.resp,
                         aofErr |-> r.aofErr]
                   ELSE last
        /\ everSet' = IF command \in {"SET", "INCR", "DECR"} /\ ~IsError(r.resp)
                      THEN everSet \cup {cmd.args[1]}
                      ELSE everSet
        /\ sinceSave' = Touched(r.db)
        /\ UNCHANGED <<now, aofEnabled, rdbEnabled, rdbDisk, preCrash, recovered, concVars, wireVars, procVars, taskVars>>

\* time passes
Tick ==
    /\ ~recovered
    /\ now < MaxTime
    /\ now' = now + 1
    /\ sinceSave' = IF sinceSave = "none" THEN "none" ELSE "dirty"
    /\ UNCHANGED <<dbVars, pmVars, last, everSet, preCrash, recovered, concVars, wireVars, procVars, taskVars>>

\* the ticker of StartExpirationManager fires
Sweep ==
    LET db == cleanupExpired(DB, now)
    IN  /\ ~recovered
        /\ data' = db.data
        /\ expiry' = db.expiry
        /\ sinceSave' = Touched(db)
        /\ UNCHANGED <<now, pmVars, last, everSet, preCrash, recovered, concVars, wireVars, procVars, taskVars>>

(***************************************************************************)
(* The requests of the engine specification: every verb, on key a in full  *)
(* and on key b for the commands that take several keys.                   *)
(***************************************************************************)
KeyA == <<"a">>
KeyB == <<"b">>
FieldF == <<"f">>
FieldG == <<"g">>
ValX == <<"x">>
Val1 == <<"1">>

Req(verb, args) == [verb |-> verb, args |-> args]

Requests ==
    {Req("SET", <<KeyA, v>>) : v \in {ValX, Val1}}
    \cup {Req("set", <<KeyB, ValX>>)}
    \cup {Req("GET", <<k>>) : k \in {KeyA, KeyB}}
    \cup {Req("DEL", ks) : ks \in {<<KeyA>>, <<KeyA, KeyB>>}}
    \cup {Req("EXISTS", ks) : ks \in {<<KeyA>>, <<KeyA, KeyB>>}}
    \cup {Req("EXPIRE", <<KeyA, s>>) : s \in {Val1, ValX}}
    \cup {Req("TTL", <<KeyA>>), Req("KEYS", <<>>), Req("PING", <<>>)}
    \cup {Req("HSET", <<KeyA, FieldF, v>>) : v \in {ValX, Val1}}
    \cup {Req("HSET", <<KeyA, FieldG, ValX>>)}
    \cup {Req("HGET", <<KeyA, f>>) : f \in {FieldF, FieldG}}
    \cup {Req("HDEL", fs) : fs \in {<<KeyA, FieldF>>, <<KeyA, FieldF, FieldG>>}}
    \cup {Req("INCR", <<KeyA>>), Req("DECR", <<KeyA>>)}

Command == \E cmd \in Requests : Request(cmd, TRUE)

\* the engine under one connection: a manager made with both flags off
Init == InitWith(FALSE, FALSE)

Next == Command \/ Tick \/ Sweep

Spec == Init /\ [][Next]_vars

(***************************************************************************)
(* The durability specification: the server as NewServer makes it (both    *)
(* flags on), one connection, the periodic snapshot, and one restart.      *)
(***************************************************************************)
\* write commands a run may log before the model stops it
MaxAof == 3

KeyATtl == TtlName(KeyA)
KeyH == <<"h">>

DurRequests ==
    {Req("SET", <<k, ValX>>) : k \in {KeyA, KeyATtl}}
    \cup {Req("EXPIRE", <<KeyA, Val1>>), Req("HSET", <<KeyH, FieldF, ValX>>)}
    \cup {Req("INCR", <<KeyA>>), Req("DEL", <<KeyA>>), Req("GET", <<KeyA>>)}

DurCommand ==
    \E cmd \in DurRequests :
        /\ isWriteCommand(ToUpper(cmd.verb)) => Len(aofDisk) < MaxAof
        /\ Request(cmd, TRUE)

\* the ticker of StartBackgroundSave fires: SaveRDB, over the keys in any
\* order the map may give
Save ==
    \E keys \in Orders(Keys(DB, now)) :
        LET r == SaveRDB(DB, keys, now)
        IN  /\ ~recovered
            /\ rdbEnabled
            /\ data' = r.db.data
            /\ expiry' = r.db.expiry
            /\ rdbDisk' = r.file
            /\ sinceSave' = "clean"
            /\ UNCHANGED <<now, aofEnabled, rdbEnabled, aofFile, aofDisk, last, everSet,
                           preCrash, recovered, concVars, wireVars, procVars, taskVars>>

\* the process stops and is started again: a new Database and Manager,
\* then the loading part of Server.Start (LoadRDB, LoadAOF; their errors
\* are printed as warnings)
Restart ==
    LET rdb == LoadRDB(NewDatabase, rdbEnabled, rdbDisk)
        aof == LoadAOF(rdb.db, aofEnabled, aofDisk)
    IN  /\ ~recovered
        /\ preCrash' = DB
        /\ data' = aof.db.data
        /\ expiry' = aof.db.expiry
        /\ aofFile' = "nil"
        /\ recovered' = TRUE
        /\ savePc' = "idle"
        /\ stdout' = stdout \cup (IF rdb.err THEN {WarnRDB} ELSE {})
                            \cup (IF aof.err THEN {WarnAOF} ELSE {})
        /\ server' = "listening"
        /\ UNCHANGED <<now, aofEnabled, rdbEnabled, aofDisk, rdbDisk, last, everSet,
                       sinceSave, concVars, wireVars, taskVars>>

InitDur == InitWith(TRUE, TRUE)

NextDur == DurCommand \/ Tick \/ Sweep \/ Save \/ Restart

SpecDur == InitDur /\ [][NextDur]_vars

(***************************************************************************)
(* The concurrent specification: one goroutine per connection              *)
(* (handleConnection), each step of which is one call that holds db.mu, or *)
(* one half of WriteAOF, which holds no lock.  Two calls of WriteAOF that  *)
(* overlap race on the shared bufio.Writer: either one's line may then be  *)
(* overwritten in the buffer before it is flushed, and is lost.            *)
(***************************************************************************)
\* requests one connection sends before the model stops it
MaxCmds == 2

ConcRequests(c) ==
    {Req("SET", <<KeyA, IF c = "c1" THEN ValX ELSE Val1>>),
     Req("GET", <<KeyA>>), Req("INCR", <<KeyA>>)}

ConcUnchanged == <<wireVars, procVars, taskVars, now, aofEnabled, rdbEnabled, rdbDisk, last,
                   everSet, preCrash,
                   sinceSave, recovered>>

\* readRESPArray returns one of the requests reqs
RecvOf(c, reqs) ==
    \E cmd \in reqs :
        LET command == ToUpper(cmd.verb)
        IN  /\ pc[c] = "read"
            /\ Len(hist[c]) < MaxCmds
            /\ cur' = [cur EXCEPT ![c] = [verb |-> command, args |-> cmd.args,
                                          resp |-> NullBulk, aofErr |-> FALSE]]
            /\ pc' = [pc EXCEPT ![c] = IF isWriteCommand(command) THEN "log" ELSE "handle"]
            /\ order' = IF command = "SET"
                        THEN [order EXCEPT !.dup = @ \/ cmd.args[2] \in order.invoked,
                                           !.invoked = @ \cup {cmd.args[2]},
                                           !.seen[c] = order.returned]
                        ELSE [order EXCEPT !.seen[c] = order.superseded]
            /\ UNCHANGED <<dbVars, aofFile, aofDisk, got, hist, inAOF, applied, ConcUnchanged>>

Recv(c) == RecvOf(c, ConcRequests(c))

\* executeCommand enters WriteAOF; whoever is inside with another is racing
LogBegin(c) ==
    /\ pc[c] = "log"
    /\ pc' = [pc EXCEPT ![c] = "logging"]
    /\ inAOF' = IF DOMAIN inAOF = {}
                THEN MapPut(inAOF, c, "alone")
                ELSE [x \in (DOMAIN inAOF) \cup {c} |-> "raced"]
    /\ UNCHANGED <<dbVars, aofFile, aofDisk, cur, got, hist, applied, order, ConcUnchanged>>

\* WriteAOF returns: the line is in the file, unless the call raced and the
\* line was lost
LogEnd(c) ==
    /\ pc[c] = "logging"
    /\ \E lost \in {FALSE} \cup {inAOF[c] = "raced"} :
           LET w == WriteAOF(PM, aofDisk, cmdStr(cur[c].verb, cur[c].args), TRUE)
           IN  /\ aofFile' = w.pm.aofFile
               /\ aofDisk' = IF lost THEN aofDisk ELSE w.disk
    /\ pc' = [pc EXCEPT ![c] = "handle"]
    /\ inAOF' = MapDel(inAOF, c)
    /\ UNCHANGED <<dbVars, cur, got, hist, applied, order, ConcUnchanged>>

\* handleSet and handleGet: one call of the Database
Handle(c) ==
    LET r == Dispatch(DB, cur[c].verb, cur[c].args, now)
    IN  /\ pc[c] = "handle"
        /\ cur[c].verb \in {"SET", "GET"}
        /\ data' = r.db.data
        /\ expiry' = r.db.expiry
        /\ cur' = [cur EXCEPT ![c].resp = r.resp]
        /\ pc' = [pc EXCEPT ![c] = "reply"]
        /\ applied' = IF cur[c].verb = "SET"
                      THEN Append(applied, cmdStr(cur[c].verb, cur[c].args))
                      ELSE applied
        /\ UNCHANGED <<aofFile, aofDisk, got, hist, inAOF, order, ConcUnchanged>>

\* handleIncr: value, exists := s.db.Get(key)
IncrGet(c) ==
    LET g == Get(DB, cur[c].args[1], now)
    IN  /\ pc[c] = "handle"
        /\ cur[c].verb = "INCR"
        /\ data' = g.db.data
        /\ expiry' = g.db.expiry
        /\ got' = [got EXCEPT ![c] = [val |-> g.val, ok |-> g.ok]]
        /\ pc' = [pc EXCEPT ![c] = "incr"]
        /\ UNCHANGED <<aofFile, aofDisk, cur, hist, inAOF, applied, order, ConcUnchanged>>

\* handleIncr: the rest, down to s.db.Set
IncrSet(c) ==
    LET r == IncrWrite(DB, cur[c].args[1], got[c], 1)
    IN  /\ pc[c] = "incr"
        /\ data' = r.db.data
        /\ expiry' = r.db.expiry
        /\ cur' = [cur EXCEPT ![c].resp = r.resp]
        /\ got' = [got EXCEPT ![c] = [val |-> <<>>, ok |-> FALSE]]
        /\ pc' = [pc EXCEPT ![c] = "reply"]
        /\ applied' = IF IsError(r.resp) THEN applied
                      ELSE Append(applied, cmdStr(cur[c].verb, cur[c].args))
        /\ UNCHANGED <<aofFile, aofDisk, hist, inAOF, order, ConcUnchanged>>

\* client.WriteResponse(response)
Reply(c) ==
    /\ pc[c] = "reply"
    /\ pc' = [pc EXCEPT ![c] = "read"]
    /\ hist' = [hist EXCEPT ![c] = Append(@, [verb |-> cur[c].verb, args |-> cur[c].args,
                                              resp |-> cur[c].resp,
                                              stale |-> order.seen[c]])]
    /\ cur' = [cur EXCEPT ![c] = NoRequest]
    /\ order' = IF cur[c].verb = "SET"
                THEN [order EXCEPT !.superseded = @ \cup order.seen[c],
                                   !.returned = @ \cup {cur[c].args[2]},
                                   !.seen[c] = {}]
                ELSE [order EXCEPT !.seen[c] = {}]
    /\ UNCHANGED <<dbVars, aofFile, aofDisk, got, inAOF, applied, ConcUnchanged>>

InitConc == InitWith(TRUE, TRUE)

NextConc ==
    \E c \in Clients :
        Recv(c) \/ LogBegin(c) \/ LogEnd(c) \/ Handle(c) \/ IncrGet(c) \/ IncrSet(c) \/ Reply(c)

SpecConc == InitConc /\ [][NextConc]_vars

\* the clients that send nothing but SET and GET of one key
SetGetRequests(c) == {cmd \in ConcRequests(c) : cmd.verb \in {"SET", "GET"}}

RecvSetGet(c) == RecvOf(c, SetGetRequests(c))

NextSetGet ==
    \E c \in Clients :
        RecvSetGet(c) \/ LogBegin(c) \/ LogEnd(c) \/ Handle(c) \/ Reply(c)

SpecSetGet == InitConc /\ [][NextSetGet]_vars

(***************************************************************************)
(* Properties.                                                             *)
(***************************************************************************)
AllKeys == {KeyA, KeyB, KeyATtl, KeyH}

\* the key has an expiry instant and the clock is past it
Passed(db, key) == key \in DOMAIN db.expiry /\ now > db.expiry[key]

\* what a connection is answered for one request in the current state
ReplyTo(verb, args) == Dispatch(DB, verb, args, now).resp

\* the database a request leaves
After(verb, args) == Dispatch(DB, verb, args, now).db

\* C1 (replay fidelity): after a restart with no snapshot file, recovery
\* over the WAL written by the live run gives back the key space the live
\* run had reached (no key of the live run had an expiry).
C1_ReplayFidelity ==
    (recovered /\ ~rdbDisk.exists /\ preCrash.expiry = EmptyMap)
        => data = preCrash.data

\* C4 (snapshot round trip): after SaveRDB and a restart with nothing in
\* between, the key space has the same keys with the same types and values,
\* and every key has the same remaining TTL.
C4_SnapshotRoundTrip ==
    (recovered /\ sinceSave = "clean")
        => /\ data = preCrash.data
           /\ \A k \in AllKeys : TTL(DB, k, now).ttl = TTL(preCrash, k, now).ttl

\* C5 (expired keys are invisible): for a key whose expiry instant has
\* passed, swept or not, GET and HGET answer null, EXISTS counts 0, KEYS
\* omits it, TTL answers -2, DEL and HDEL count 0, and EXPIRE answers 0
\* and leaves GET answering null.
C5_ExpiredKeyHidden ==
    \A k \in AllKeys :
        Passed(DB, k) =>
            /\ ReplyTo("GET", <<k>>) = NullBulk
            /\ \A f \in {FieldF, FieldG} : ReplyTo("HGET", <<k, f>>) = NullBulk
            /\ ReplyTo("EXISTS", <<k>>) = Integer(0)
            /\ k \notin ReplyTo("KEYS", <<>>).Array
            /\ ReplyTo("TTL", <<k>>) = Integer(-2)
            /\ ReplyTo("DEL", <<k>>) = Integer(0)
            /\ \A f \in {FieldF, FieldG} : ReplyTo("HDEL", <<k, f>>) = Integer(0)
            /\ ReplyTo("EXPIRE", <<k, Val1>>) = Integer(0)
            /\ handleGet(After("EXPIRE", <<k, Val1>>), <<k>>, now).resp = NullBulk

\* C6 (SET then GET): once SET key value was answered OK, and until the
\* next write command, GET key answers value, whatever time has passed and
\* whether the sweeper ran; and GET on a key that never was given a string
\* value answers the null bulk string.
C6_SetThenGet ==
    /\ (last.verb = "SET" /\ last.resp = SimpleString(<<"OK">>))
           => ReplyTo("GET", <<last.args[1]>>) = BulkString(last.args[2])
    /\ \A k \in AllKeys \ everSet : ReplyTo("GET", <<k>>) = NullBulk

\* a SET was answered, a second and more went by, and GET answers its value
C6_Witness ==
    /\ last.verb = "SET" /\ last.args = <<KeyA, ValX>>
    /\ now > TicksPerSec
    /\ ReplyTo("GET", <<KeyA>>) = BulkString(ValX)
    /\ KeyB \notin everSet /\ ReplyTo("GET", <<KeyB>>) = NullBulk

\* the key is not there for a command: not in the table, or expired
Absent(k) == k \notin DOMAIN data \/ isExpired(DB, k, now)

\* the key holds a string that is no integer of the machine width
HoldsNonInteger(k) ==
    /\ ~Absent(k)
    /\ data[k].Type = StringType
    /\ ~ParseInt(data[k].StrVal).ok

\* C9 (INCR and DECR, absent and non-integer): on an absent key INCR stores
\* and answers 1 and DECR stores and answers -1; on a key that holds a
\* string that is no integer both answer an error and leave the key space
\* and the expiry index as they were.
C9_IncrAbsentAndNonInteger ==
    \A k \in AllKeys :
        /\ Absent(k) =>
              /\ ReplyTo("INCR", <<k>>) = Integer(1)
              /\ After("INCR", <<k>>).data[k] = StringValue(<<"1">>)
              /\ ReplyTo("DECR", <<k>>) = Integer(-1)
              /\ After("DECR", <<k>>).data[k] = StringValue(<<"-", "1">>)
        /\ HoldsNonInteger(k) =>
              /\ IsError(ReplyTo("INCR", <<k>>)) /\ After("INCR", <<k>>) = DB
              /\ IsError(ReplyTo("DECR", <<k>>)) /\ After("DECR", <<k>>) = DB

\* INCR was answered an error on a key that holds a non-integer string and
\* has a TTL
C9_Witness ==
    /\ last.verb = "INCR" /\ IsError(last.resp)
    /\ HoldsNonInteger(KeyA) /\ KeyA \in DOMAIN expiry

\* C10 (overflow): INCR on the largest integer and DECR on the smallest
\* answer an error and leave the stored value as it was.
C10_NoWraparound ==
    \A k \in AllKeys :
        (~Absent(k) /\ data[k].Type = StringType) =>
            /\ data[k].StrVal = FormatInt(MaxInt64) =>
                  IsError(ReplyTo("INCR", <<k>>)) /\ After("INCR", <<k>>) = DB
            /\ data[k].StrVal = FormatInt(MinInt64) =>
                  IsError(ReplyTo("DECR", <<k>>)) /\ After("DECR", <<k>>) = DB

(***************************************************************************)
(* Properties of the concurrent specification.                             *)
(***************************************************************************)
\* the places of a line in a sequence of lines
Places(seq, t) == {i \in 1..Len(seq) : seq[i] = t}

Distinct(seq) == \A i, j \in 1..Len(seq) : seq[i] = seq[j] => i = j

\* C2 (WAL order is apply order): of two write commands whose records are
\* in the WAL and whose mutations were both applied, the one whose record
\* comes first was applied first.
C2_WalOrderIsApplyOrder ==
    (Distinct(aofDisk) /\ Distinct(applied)) =>
        \A i, j \in 1..Len(aofDisk) :
            \A p \in Places(applied, aofDisk[i]), q \in Places(applied, aofDisk[j]) :
                i < j => p < q

\* the write commands answered with success so far, as (client, place)
Acked(t) ==
    {<<c, i>> \in Clients \X (1..MaxCmds) :
        /\ i <= Len(hist[c])
        /\ isWriteCommand(hist[c][i].verb)
        /\ ~IsError(hist[c][i].resp)
        /\ cmdStr(hist[c][i].verb, hist[c][i].args) = t}

WriteTexts == {cmdStr(cmd.verb, cmd.args) : cmd \in UNION {ConcRequests(c) : c \in Clients}}

\* C3 (log before acknowledge): every write command answered with success
\* has a record of its own in the flushed WAL by the time it is answered.
C3_LogBeforeAck ==
    \A t \in WriteTexts :
        Cardinality(Acked(t)) <= Cardinality(Places(aofDisk, t))

\* the verbs the clients have sent so far
VerbsSent ==
    UNION {{hist[c][i].verb : i \in 1..Len(hist[c])}
           \cup (IF pc[c] = "read" THEN {} ELSE {cur[c].verb}) : c \in Clients}

\* C7 (SET and GET are atomic): while the clients send only SET and GET on
\* one key, each SET with a value of its own, every GET is answered null or
\* the whole value of a SET sent by then, and never a value whose SET had
\* returned before another SET was sent that itself returned before the GET
\* was sent.
C7_SetGetAtomic ==
    (VerbsSent \subseteq {"SET", "GET"} /\ ~order.dup) =>
        \A c \in Clients : \A i \in 1..Len(hist[c]) :
            hist[c][i].verb = "GET" =>
                \/ hist[c][i].resp = NullBulk
                \/ /\ hist[c][i].resp.Type = "$"
                   /\ ~hist[c][i].resp.Null
                   /\ hist[c][i].resp.Str \in order.invoked
                   /\ hist[c][i].resp.Str \notin hist[c][i].stale

\* a GET sent after one SET had been overwritten by a later one was answered
\* with a value
C7_Witness ==
    /\ VerbsSent \subseteq {"SET", "GET"} /\ ~order.dup
    /\ \E c \in Clients : \E i \in 1..Len(hist[c]) :
           /\ hist[c][i].verb = "GET"
           /\ hist[c][i].stale # {}
           /\ ~hist[c][i].resp.Null

\* C8 (INCR is atomic): when every client has sent one INCR of the same
\* absent key and has its answer, the answers are 1..N, each once, and the
\* stored value is N.
C8_IncrAtomic ==
    (\A c \in Clients :
        /\ pc[c] = "read" /\ Len(hist[c]) = 1
        /\ hist[c][1].verb = "INCR" /\ hist[c][1].args = <<KeyA>>)
    => /\ \A c \in Clients : hist[c][1].resp.Type = ":"
       /\ {hist[c][1].resp.Num : c \in Clients} = 1..Cardinality(Clients)
       /\ KeyA \in DOMAIN data
       /\ data[KeyA] = StringValue(FormatInt(Cardinality(Clients)))

(***************************************************************************)
(* Properties of the engine, continued.                                    *)
(***************************************************************************)
\* a command failed: it was answered an error, null, or the count 0
Failed(resp) == IsError(resp) \/ resp = NullBulk \/ resp = Integer(0)

\* C11 (type mismatch leaves the state alone): GET, INCR and DECR on a key
\* that holds a hash, and HGET and HDEL on a key that holds a string, fail
\* and leave the key space and the expiry index as they were.
C11_TypeMismatchNoMutation ==
    \A k \in AllKeys :
        /\ (~Absent(k) /\ data[k].Type = HashType) =>
              \A verb \in {"GET", "INCR", "DECR"} :
                  Failed(ReplyTo(verb, <<k>>)) /\ After(verb, <<k>>) = DB
        /\ (~Absent(k) /\ data[k].Type = StringType) =>
              \A f \in {FieldF, FieldG} : \A verb \in {"HGET", "HDEL"} :
                  Failed(ReplyTo(verb, <<k, f>>)) /\ After(verb, <<k, f>>) = DB

\* main.go, executeCommand, case "DEL", on a store of strings
LegacyDel(store, args) ==
    LET named == {args[i] : i \in 1..Len(args)} \cap DOMAIN store
    IN  IF Len(args) < 1 THEN [store |-> store, count |-> -1]
        ELSE [store |-> [key \in (DOMAIN store) \ named |-> store[key]],
              count |-> Cardinality(named)]

\* the string keys of the key space, as a store of main.go
LegacyStore ==
    [key \in {k \in DOMAIN data : data[k].Type = StringType} |-> data[key].StrVal]

\* the lists of keys a DEL names
DelArgs == {<<KeyA>>, <<KeyA, KeyB>>, <<KeyB, KeyA>>, <<KeyA, KeyA>>}

Named(args) == {args[i] : i \in 1..Len(args)}

C13_TtlOfAbsentAndExpired ==
    \A k \in AllKeys :
        /\ (k \notin DOMAIN data \/ Passed(DB, k)) => ReplyTo("TTL", <<k>>) = Integer(-2)
        /\ (k \in DOMAIN data /\ k \notin DOMAIN expiry) => ReplyTo("TTL", <<k>>) = Integer(-1)
        /\ Passed(DB, k) => ReplyTo("EXISTS", <<k>>) = Integer(0)

\* a key whose expiry has passed is still in the table, not yet swept, and
\* another key is there with no expiry
C13_Witness ==
    /\ KeyA \in DOMAIN data /\ Passed(DB, KeyA)
    /\ KeyB \in DOMAIN data /\ KeyB \notin DOMAIN expiry

\* the seconds of every EXPIRE that succeeds in this model
ExpireSeconds == ParseInt(Val1).num

\* C14 (TTL after EXPIRE): while a key that was given n seconds has not
\* reached its expiry instant, TTL answers a value in 1..n; and TTL does
\* not answer 0 for a key that GET answers with a value.
C14_TtlInRange ==
    \A k \in AllKeys :
        /\ (k \in DOMAIN data /\ k \in DOMAIN expiry /\ now < expiry[k]) =>
              ReplyTo("TTL", <<k>>) \in {Integer(i) : i \in 1..ExpireSeconds}
        /\ ReplyTo("GET", <<k>>) # NullBulk => ReplyTo("TTL", <<k>>) # Integer(0)

Other(f) == IF f = FieldF THEN FieldG ELSE FieldF

\* C15 (hash fields round-trip): whatever the key held before (nothing, a
\* string, a hash, a value whose expiry has passed and that is not swept
\* yet), right after HSET key f v HGET key f answers v, also after an HSET
\* or an HDEL of another field of the key; and after HDEL took the last
\* field away EXISTS key answers 1.
C15_HashRoundTrip ==
    \A k \in AllKeys : \A f \in {FieldF, FieldG} : \A v \in {ValX, Val1} :
        LET d1 == After("HSET", <<k, f, v>>)
            d2 == handleHSet(d1, <<k, Other(f), ValX>>).db
            d3 == handleHDel(d1, <<k, Other(f)>>).db
            d4 == handleHDel(d1, <<k, f, Other(f)>>).db
        IN  /\ ReplyTo("HSET", <<k, f, v>>) = Integer(1)
            /\ \A d \in {d1, d2, d3} : handleHGet(d, <<k, f>>, now).resp = BulkString(v)
            /\ handleExists(d4, <<k>>, now).resp = Integer(1)

(***************************************************************************)
(* One connection on the wire: the reader of server.go.  A byte is a       *)
(* symbol, CR and LF among them; the length a frame states for a bulk      *)
(* string counts symbols.  Read deadlines are left out: a read that has    *)
(* not all its bytes yet waits for them.                                   *)
(***************************************************************************)
CRLF == <<"CR", "LF">>

IsSpace(ch) == ch \in {"CR", "LF", " "}

RECURSIVE TrimLeft(_)
TrimLeft(s) == IF Len(s) > 0 /\ IsSpace(Head(s)) THEN TrimLeft(Tail(s)) ELSE s

RECURSIVE TrimRight(_)
TrimRight(s) ==
    IF Len(s) > 0 /\ IsSpace(s[Len(s)]) THEN TrimRight(SubSeq(s, 1, Len(s) - 1)) ELSE s

\* strings.TrimSpace
TrimSpace(s) == TrimRight(TrimLeft(s))

RECURSIVE DecimalFrom(_, _, _)
DecimalFrom(s, i, acc) ==
    IF i > Len(s) THEN [ok |-> TRUE, num |-> acc]
    ELSE IF ~IsDigit(s[i]) THEN [ok |-> FALSE, num |-> 0]
    ELSE DecimalFrom(s, i + 1, acc * 10 + DigitVal(s[i]))

\* strconv.Atoi of a length line; no length of the model is near the range
\* of int, so the range error is left out
Atoi(s) ==
    IF Len(s) = 0 THEN [ok |-> FALSE, num |-> 0]
    ELSE LET from == IF s[1] \in {"-", "+"} THEN 2 ELSE 1
             un   == DecimalFrom(s, from, 0)
         IN  IF from > Len(s) \/ ~un.ok THEN [ok |-> FALSE, num |-> 0]
             ELSE [ok |-> TRUE, num |-> IF s[1] = "-" THEN -un.num ELSE un.num]

\* reader.ReadString('\n'): the bytes up to the first LF and the rest; not
\* ok when no LF has come
ReadString(buf) ==
    IF \E i \in 1..Len(buf) : buf[i] = "LF"
    THEN LET i == CHOOSE i \in 1..Len(buf) :
                      buf[i] = "LF" /\ \A j \in 1..(i - 1) : buf[j] # "LF"
         IN  [ok |-> TRUE, line |-> SubSeq(buf, 1, i), rest |-> SubSeq(buf, i + 1, Len(buf))]
    ELSE [ok |-> FALSE, line |-> <<>>, rest |-> <<>>]

\* what a read returns: status is "ok", "proto" (a byte or a length that is
\* not what the protocol wants), "short" (the bytes ran out inside a
\* frame), "empty" (no byte at all) or "panic" (make([]byte, length) with a
\* negative length); rest is what the reader has not consumed
Read(status, cmd, rest) == [status |-> status, cmd |-> cmd, rest |-> rest]

\* readBulkString; cmd is <<the string>>
readBulkString(buf) ==
    IF Len(buf) = 0 THEN Read("short", <<>>, <<>>)
    ELSE IF Head(buf) # "$" THEN Read("proto", <<>>, Tail(buf))
    ELSE LET l == ReadString(Tail(buf))
             n == Atoi(TrimSpace(l.line))
         IN  IF ~l.ok THEN Read("short", <<>>, <<>>)
             ELSE IF ~n.ok THEN Read("proto", <<>>, l.rest)
             ELSE IF n.num = -1 THEN Read("ok", << <<>> >>, l.rest)
             ELSE IF n.num = 0
             THEN LET t == ReadString(l.rest)
                  IN  IF t.ok THEN Read("ok", << <<>> >>, t.rest)
                      ELSE Read("short", <<>>, <<>>)
             ELSE IF n.num < 0 THEN Read("panic", <<>>, l.rest)
             ELSE IF Len(l.rest) < n.num THEN Read("short", <<>>, <<>>)
             ELSE LET t == ReadString(SubSeq(l.rest, n.num + 1, Len(l.rest)))
                  IN  IF t.ok THEN Read("ok", <<SubSeq(l.rest, 1, n.num)>>, t.rest)
                      ELSE Read("short", <<>>, <<>>)

\* the loop of readRESPArray over the elements
RECURSIVE readBulks(_, _, _)
readBulks(buf, n, acc) ==
    IF n = 0 THEN Read("ok", acc, buf)
    ELSE LET b == readBulkString(buf)
         IN  IF b.status # "ok" THEN b
             ELSE readBulks(b.rest, n - 1, acc \o b.cmd)

readRESPArray(buf) ==
    IF Len(buf) = 0 THEN Read("empty", <<>>, <<>>)
    ELSE IF Head(buf) # "*" THEN Read("proto", <<>>, Tail(buf))
    ELSE LET l == ReadString(Tail(buf))
             n == Atoi(TrimSpace(l.line))
         IN  IF ~l.ok THEN Read("short", <<>>, <<>>)
             ELSE IF ~n.ok THEN Read("proto", <<>>, l.rest)
             ELSE IF n.num <= 0 THEN Read("ok", <<>>, l.rest)
             ELSE readBulks(l.rest, n.num, <<>>)

\* the frames a client writes: a bulk string and an array of bulk strings
Bulk(str) == <<"$">> \o FormatUint(Len(str)) \o CRLF \o str \o CRLF

RECURSIVE Bulks(_)
Bulks(cmd) == IF Len(cmd) = 0 THEN <<>> ELSE Bulk(Head(cmd)) \o Bulks(Tail(cmd))

Frame(cmd) == <<"*">> \o FormatUint(Len(cmd)) \o CRLF \o Bulks(cmd)

\* frames sent on the connection before the model stops the client
MaxFrames == 2

\* commands that are well formed on the wire, with a right or a wrong
\* number of arguments or an unknown verb
WireCommands ==
    {<< <<"SET">>, KeyA, ValX >>, << <<"GET">>, KeyA >>,
     << <<"SET">>, KeyA, ValX, Val1 >>, << <<"GET">> >>, << <<"EXPIRE">>, KeyA >>,
     << <<"FOO">>, KeyA >>}

\* frames the protocol does not allow: an inline command, an array length
\* and a bulk length that are no numbers, an element that is no bulk string
BadFrames ==
    {<<"PING">> \o CRLF,
     <<"*", "x">> \o CRLF,
     <<"*", "1">> \o CRLF \o <<"$", "x">> \o CRLF,
     <<"*", "1">> \o CRLF \o <<"+", "OK">> \o CRLF}

WireFrames == {Frame(cmd) : cmd \in WireCommands} \cup BadFrames

\* the verb of a command read from the wire
VerbOf(str) == IF Len(str) = 1 THEN str[1] ELSE "?"

WireUnchanged == <<now, aofEnabled, rdbEnabled, rdbDisk, histVars, concVars, procVars, taskVars>>

\* the client writes a frame
Send ==
    \E frame \in WireFrames :
        /\ conn = "open"
        /\ sent < MaxFrames
        /\ inbuf' = inbuf \o frame
        /\ sent' = sent + 1
        /\ UNCHANGED <<dbVars, aofFile, aofDisk, conn, wire, WireUnchanged>>

\* the client closes its side
ClientClose ==
    /\ conn = "open"
    /\ conn' = "eof"
    /\ UNCHANGED <<dbVars, aofFile, aofDisk, inbuf, sent, wire, WireUnchanged>>

\* one turn of the loop of handleConnection.  wire records whether a
\* protocol error was met (protoErr), whether a command was executed after
\* one (afterErr), and the last command executed with its response,
\* whether it changed the database, and the connection as it left it.
Serve ==
    LET r == readRESPArray(inbuf)
        e == executeCommand(DB, PM, aofDisk, Req(VerbOf(r.cmd[1]), Tail(r.cmd)), now, TRUE)
    IN  /\ conn \in {"open", "eof"}
        /\ r.status \in {"empty", "short"} => conn = "eof"
        /\ CASE r.status = "empty" ->
                  \* err == io.EOF: return, and the deferred conn.Close()
                  /\ conn' = "closed"
                  /\ UNCHANGED <<dbVars, aofFile, aofDisk, inbuf, wire, server>>
             [] r.status = "short" ->
                  \* a wrapped EOF: WriteError, continue
                  /\ inbuf' = <<>>
                  /\ UNCHANGED <<dbVars, aofFile, aofDisk, conn, wire, server>>
             [] r.status = "proto" ->
                  \* WriteError("ERR " + err.Error()), continue
                  /\ inbuf' = r.rest
                  /\ wire' = [wire EXCEPT !.protoErr = TRUE]
                  /\ UNCHANGED <<dbVars, aofFile, aofDisk, conn, server>>
             [] r.status = "panic" ->
                  /\ server' = "fatal"
                  /\ conn' = "closed"
                  /\ UNCHANGED <<dbVars, aofFile, aofDisk, inbuf, wire>>
             [] r.status = "ok" /\ Len(r.cmd) = 0 ->
                  \* WriteError("ERR empty command"), continue
                  /\ inbuf' = r.rest
                  /\ UNCHANGED <<dbVars, aofFile, aofDisk, conn, wire, server>>
             [] r.status = "ok" /\ Len(r.cmd) > 0 ->
                  /\ inbuf' = r.rest
                  /\ data' = e.db.data
                  /\ expiry' = e.db.expiry
                  /\ aofFile' = e.pm.aofFile
                  /\ aofDisk' = e.disk
                  /\ wire' = [protoErr |-> wire.protoErr,
                              afterErr |-> wire.afterErr \/ wire.protoErr,
                              cmd |-> r.cmd, resp |-> e.resp, changed |-> e.db # DB,
                              conn |-> conn]
                  /\ UNCHANGED <<conn, server>>
        /\ UNCHANGED <<sent, savePc, stdout, now, aofEnabled, rdbEnabled, rdbDisk,
                       histVars, concVars, taskVars>>

InitWire == InitWith(TRUE, TRUE)

NextWire == Send \/ ClientClose \/ Serve

SpecWire == InitWire /\ [][NextWire]_vars

\* C16 (a protocol error is fatal to the connection): once a frame that
\* breaks the protocol was met, the connection is closed and no command is
\* executed on it any more.
C16_ProtocolErrorIsFatal ==
    wire.protoErr => (conn = "closed" /\ ~wire.afterErr)

\* the number of arguments of the command table
RightArity(verb, n) ==
    CASE verb \in {"GET", "TTL", "INCR", "DECR"} -> n = 1
      [] verb \in {"SET", "EXPIRE", "HGET"} -> n = 2
      [] verb = "HSET" -> n = 3
      [] verb \in {"DEL", "EXISTS"} -> n >= 1
      [] verb = "HDEL" -> n >= 2
      [] verb \in {"PING", "KEYS"} -> TRUE
      [] OTHER -> FALSE

\* C17 (a command error touches nothing but the response): a command with
\* an unknown verb or a number of arguments that is not the one of the
\* command table is answered a typed error, leaves the key space and the
\* expiry index as they were, and leaves the connection open.
C17_CommandErrorLeavesState ==
    (Len(wire.cmd) > 0 /\ ~RightArity(VerbOf(wire.cmd[1]), Len(wire.cmd) - 1)) =>
        /\ IsError(wire.resp)
        /\ ~wire.changed
        /\ wire.conn # "closed"

(***************************************************************************)
(* Failures of the file system and of the process: a write to the WAL or   *)
(* to the snapshot that fails, SaveRDB step by step with the process       *)
(* stopping between any two steps, and the start that follows.             *)
(***************************************************************************)
FaultRequests ==
    {Req("SET", <<KeyA, ValX>>), Req("DEL", <<KeyA>>), Req("GET", <<KeyA>>)}

\* a request is executed; the file system may refuse the write to the WAL
FaultCommand ==
    \E cmd \in FaultRequests : \E ioOk \in BOOLEAN :
        /\ server = "listening"
        /\ isWriteCommand(ToUpper(cmd.verb)) => Len(aofDisk) < MaxAof
        /\ Request(cmd, ioOk)

SaveUnchanged == <<now, aofEnabled, rdbEnabled, aofFile, aofDisk, last, everSet, preCrash,
                   recovered, server, stdout, concVars, wireVars, taskVars>>

\* SaveRDB: os.Create("dump.rdb") truncates the file in place; an error is
\* returned to StartBackgroundSave, which drops it
SaveCreate ==
    \E ioOk \in BOOLEAN :
        /\ ~recovered
        /\ rdbEnabled
        /\ savePc = "idle"
        /\ savePc' = IF ioOk THEN "created" ELSE "idle"
        /\ rdbDisk' = IF ioOk
                      THEN [exists |-> TRUE, sections |-> 0, meta |-> EmptyMap,
                            data |-> EmptyMap]
                      ELSE rdbDisk
        /\ UNCHANGED <<dbVars, sinceSave, SaveUnchanged>>

\* SaveRDB: encoder.Encode(metadata)
SaveMeta ==
    \E ioOk \in BOOLEAN :
        /\ ~recovered
        /\ savePc = "created"
        /\ savePc' = IF ioOk THEN "meta" ELSE "idle"
        /\ rdbDisk' = IF ioOk
                      THEN [rdbDisk EXCEPT !.sections = 1,
                                           !.meta = [version |-> <<"1.0">>,
                                                     timestamp |-> now \div TicksPerSec]]
                      ELSE rdbDisk
        /\ UNCHANGED <<dbVars, sinceSave, SaveUnchanged>>

\* SaveRDB: the loop over the keys and encoder.Encode(data)
SaveData ==
    \E ioOk \in BOOLEAN : \E keys \in Orders(Keys(DB, now)) :
        LET r == SaveRDB(DB, keys, now)
        IN  /\ ~recovered
            /\ savePc = "meta"
            /\ savePc' = "idle"
            /\ data' = r.db.data
            /\ expiry' = r.db.expiry
            /\ rdbDisk' = IF ioOk THEN [r.file EXCEPT !.meta = rdbDisk.meta] ELSE rdbDisk
            /\ sinceSave' = IF ioOk THEN "clean" ELSE Touched(r.db)
            /\ UNCHANGED SaveUnchanged

InitFault == InitWith(TRUE, TRUE)

NextFault == FaultCommand \/ SaveCreate \/ SaveMeta \/ SaveData \/ Restart

SpecFault == InitFault /\ [][NextFault]_vars

\* C18 (a WAL failure is surfaced): when the WAL could not be opened or
\* written for a write command, the command is applied and answered as
\* usual, the process goes on, and a warning for it was given.
C18_WalFailureSurfaced ==
    (last.aofErr /\ ~recovered) =>
        /\ last.verb = "SET" =>
               /\ last.resp = SimpleString(<<"OK">>)
               /\ ReplyTo("GET", <<last.args[1]>>) = BulkString(last.args[2])
        /\ server = "listening"
        /\ stdout \ {WarnRDB, WarnAOF} # {}

\* C19 (loading the snapshot at startup): after a start with no snapshot
\* file the server listens with an empty key space; after a start with a
\* snapshot file that cannot be decoded the server has stopped with a
\* fatal error and no key was loaded.
C19_StartupLoad ==
    recovered =>
        /\ ~rdbDisk.exists => (server = "listening" /\ data = EmptyMap)
        /\ (rdbDisk.exists /\ rdbDisk.sections < 2) => (server = "fatal" /\ data = EmptyMap)

\* C20 (the snapshot is replaced atomically): whenever dump.rdb is there it
\* is a whole snapshot, with its metadata and its data.
C20_SnapshotAtomic ==
    rdbDisk.exists => rdbDisk.sections = 2

(***************************************************************************)
(* Properties of the engine: TTLs and the expiry index.                    *)
(***************************************************************************)
\* the key is there for every command and has a TTL that has not run out
HasLiveTtl(k) == k \in DOMAIN data /\ k \in DOMAIN expiry /\ now < expiry[k]

\* what TTL key answers in the database db
TtlIn(db, k) == handleTTL(db, <<k>>, now).resp

\* C25 (a new value has no TTL): on a key that has a TTL, after SET, after
\* an INCR or a DECR that is not answered an error, and after an HSET that
\* turns the string into a hash, TTL answers -1.
C25_ResetClearsTtl ==
    \A k \in AllKeys :
        HasLiveTtl(k) =>
            /\ TtlIn(After("SET", <<k, ValX>>), k) = Integer(-1)
            /\ \A verb \in {"INCR", "DECR"} :
                   ~IsError(ReplyTo(verb, <<k>>)) => TtlIn(After(verb, <<k>>), k) = Integer(-1)
            /\ data[k].Type = StringType =>
                   TtlIn(After("HSET", <<k, FieldF, ValX>>), k) = Integer(-1)

\* the database a start loads from the snapshot SaveRDB writes now
Reloaded(keys) == LoadRDB(NewDatabase, TRUE, SaveRDB(DB, keys, now).file).db

\* C28 (no expiry entry without a value): every key of the expiry index is
\* a key of the value table, in every state the commands, lazy expiry and
\* the sweeper reach, and in the database loaded from a snapshot of it.
C28_ExpiryHasValue ==
    /\ DOMAIN expiry \subseteq DOMAIN data
    /\ \A keys \in Orders(Keys(DB, now)) :
           DOMAIN Reloaded(keys).expiry \subseteq DOMAIN Reloaded(keys).data

\* EXPIRE was answered 0 for a key that is not there, and left no entry
C28_Witness ==
    /\ last.verb = "EXPIRE" /\ last.resp = Integer(0)
    /\ last.args[1] \notin DOMAIN data
    /\ last.args[1] \notin DOMAIN expiry

\* C30 (one expiry instant for all commands): for a key with an expiry,
\* TTL answers -2 exactly when EXISTS answers 0, when KEYS leaves the key
\* out, when GET answers null for a string and when HGET answers null for
\* a field of a hash; also at the instant the clock equals the expiry.
C30_ExpiryInstantAgreed ==
    \A k \in DOMAIN expiry \cap DOMAIN data :
        LET gone == ReplyTo("TTL", <<k>>) = Integer(-2)
        IN  /\ gone <=> ReplyTo("EXISTS", <<k>>) = Integer(0)
            /\ gone <=> k \notin ReplyTo("KEYS", <<>>).Array
            /\ data[k].Type = StringType => (gone <=> ReplyTo("GET", <<k>>) = NullBulk)
            /\ data[k].Type = HashType =>
                   \A f \in DOMAIN data[k].HashVal :
                       gone <=> ReplyTo("HGET", <<k, f>>) = NullBulk

(***************************************************************************)
(* The log specification: one client whose arguments may hold spaces and   *)
(* line feeds, and whose write commands may be rejected, with the AOF      *)
(* enabled.  Every record of aofDisk is the text executeCommand handed to  *)
(* WriteAOF, which writes it followed by one line feed.                    *)
(***************************************************************************)
KeySp == <<"a", " ", "b">>
ValSp == <<"b", " ", "x">>
ValNl == <<"x", "\n", "y">>

LogRequests ==
    {Req("SET", <<KeySp, ValX>>), Req("SET", <<KeyA, ValSp>>)}
    \cup {Req("SET", <<KeyA, ValNl>>), Req("SET", <<KeyA, ValX>>)}
    \cup {Req("SET", <<KeyA>>), Req("EXPIRE", <<KeyA, ValX>>)}
    \cup {Req("INCR", <<KeyA>>), Req("GET", <<KeyA>>)}

LogCommand ==
    \E cmd \in LogRequests :
        /\ isWriteCommand(ToUpper(cmd.verb)) => Len(aofDisk) < MaxAof
        /\ Request(cmd, TRUE)

InitLog == InitWith(TRUE, TRUE)

NextLog == LogCommand

SpecLog == InitLog /\ [][NextLog]_vars

\* the write commands of the alphabet, and the text of the record of one
LogWrites == {cmd \in LogRequests : isWriteCommand(ToUpper(cmd.verb))}

RecordOf(cmd) == cmdStr(ToUpper(cmd.verb), cmd.args)

\* C27 (the record encoding is unambiguous): every record of the log is
\* the text of one write command only (no two commands that differ in the
\* verb, the number of arguments or an argument have that text), and holds
\* no line feed, so that it is one line of the file.
C27_RecordUnambiguous ==
    \A i \in DOMAIN aofDisk :
        /\ \A c1, c2 \in LogWrites :
               RecordOf(c1) = aofDisk[i] /\ RecordOf(c2) = aofDisk[i] => c1 = c2
        /\ \A j \in DOMAIN aofDisk[i] : aofDisk[i][j] # "\n"

\* C29 (only applied commands are logged): a write command that is
\* answered an error (wrong number of arguments, EXPIRE with seconds that
\* are no integer, INCR or DECR of a value that is no integer) appends no
\* record to the log.
C29_RejectedNotLogged ==
    \A cmd \in LogWrites :
        LET r == executeCommand(DB, PM, aofDisk, cmd, now, TRUE)
        IN  IsError(r.resp) => r.disk = aofDisk

(***************************************************************************)
(* The engine with its sweeper scheduled: the ticker of                    *)
(* StartExpirationManager fires every second for as long as the process    *)
(* runs, so a sweep that has a key to remove is not put off for ever.      *)
(***************************************************************************)
SpecSweep == Init /\ [][Next]_vars /\ WF_vars(Sweep)

\* the keys a sweep that takes the lock now must remove
ExpiredNow == {k \in DOMAIN expiry : now > expiry[k]}

\* one sweep removes the keys expired when it runs, from both tables, and
\* no other key
SweepExact ==
    LET db == cleanupExpired(DB, now)
    IN  /\ db.data = [k \in (DOMAIN data) \ ExpiredNow |-> data[k]]
        /\ db.expiry = [k \in (DOMAIN expiry) \ ExpiredNow |-> expiry[k]]

\* the key is in neither table
Removed(k) == k \notin DOMAIN data /\ k \notin DOMAIN expiry

\* C26 (the sweep removes expired keys): a sweep removes exactly the keys
\* whose expiry has passed when it runs, from the value table and from the
\* expiry index; and with the sweeper scheduled, a key whose expiry has
\* passed is in the end removed from both, unless a client gives it a new
\* value or a new expiry first.
C26_SweepLiveness ==
    /\ []SweepExact
    /\ \A k \in AllKeys :
           (k \in ExpiredNow) ~> (Removed(k) \/ k \notin ExpiredNow)

\* an expired key that no client has looked at sits in both tables, and a
\* sweep would remove it
C26_Witness ==
    \E k \in ExpiredNow :
        /\ k \in DOMAIN data
        /\ k \notin DOMAIN cleanupExpired(DB, now).data

(***************************************************************************)
(* The shutdown specification: main calls Server.Shutdown on a signal and  *)
(* returns, which ends the process.  shut.phase is how far that is:        *)
(* "running", "signalled" (s.shutdown and the listener are closed),        *)
(* "saved" (SaveRDB has returned), "closed" (Manager.Close has returned),  *)
(* "exited".  Nothing reads s.shutdown but the accept loop of Start, and   *)
(* nothing closes db.shutdown: the goroutines of the connections, of       *)
(* StartExpirationManager and of StartBackgroundSave run until the process *)
(* ends.  The other fields of shut are the phase in which a client         *)
(* command was last executed (cmd), last changed the database (mut), last  *)
(* called WriteAOF (wal), and in which the sweeper (sweep) and the         *)
(* periodic save (save) last ran.                                          *)
(***************************************************************************)
ShutRequests ==
    {Req("SET", <<KeyA, ValX>>), Req("EXPIRE", <<KeyA, Val1>>)}
    \cup {Req("GET", <<KeyA>>), Req("DEL", <<KeyA>>)}

ShutUnchanged == <<now, aofEnabled, rdbEnabled, histVars, concVars, wireVars, procVars,
                   mu, snap, codec>>

\* handleConnection of a client that connected before the signal
ShutCommand ==
    \E cmd \in ShutRequests :
        LET r == executeCommand(DB, PM, aofDisk, cmd, now, TRUE)
            logged == isWriteCommand(ToUpper(cmd.verb))
        IN  /\ shut.phase # "exited"
            /\ logged => Len(aofDisk) < MaxAof
            /\ data' = r.db.data
            /\ expiry' = r.db.expiry
            /\ aofFile' = r.pm.aofFile
            /\ aofDisk' = r.disk
            /\ shut' = [shut EXCEPT !.cmd = shut.phase,
                                    !.mut = IF r.db # DB THEN shut.phase ELSE @,
                                    !.wal = IF logged THEN shut.phase ELSE @]
            /\ UNCHANGED <<rdbDisk, ShutUnchanged>>

\* the ticker of StartExpirationManager fires
ShutSweep ==
    LET db == cleanupExpired(DB, now)
    IN  /\ shut.phase # "exited"
        /\ data' = db.data
        /\ expiry' = db.expiry
        /\ shut' = [shut EXCEPT !.sweep = shut.phase]
        /\ UNCHANGED <<aofFile, aofDisk, rdbDisk, ShutUnchanged>>

\* the ticker of StartBackgroundSave fires
ShutSave ==
    \E keys \in Orders(Keys(DB, now)) :
        LET r == SaveRDB(DB, keys, now)
        IN  /\ shut.phase # "exited"
            /\ rdbEnabled
            /\ data' = r.db.data
            /\ expiry' = r.db.expiry
            /\ rdbDisk' = r.file
            /\ shut' = [shut EXCEPT !.save = shut.phase]
            /\ UNCHANGED <<aofFile, aofDisk, ShutUnchanged>>

\* Shutdown: close(s.shutdown), s.listener.Close()
ShutSignal ==
    /\ shut.phase = "running"
    /\ shut' = [shut EXCEPT !.phase = "signalled"]
    /\ UNCHANGED <<dbVars, aofFile, aofDisk, rdbDisk, ShutUnchanged>>

\* Shutdown: s.persistence.SaveRDB()
ShutSnapshot ==
    \E keys \in Orders(Keys(DB, now)) :
        LET r == SaveRDB(DB, keys, now)
        IN  /\ shut.phase = "signalled"
            /\ data' = r.db.data
            /\ expiry' = r.db.expiry
            /\ rdbDisk' = r.file
            /\ shut' = [shut EXCEPT !.phase = "saved"]
            /\ UNCHANGED <<aofFile, aofDisk, ShutUnchanged>>

\* Shutdown: s.persistence.Close()
ShutClose ==
    /\ shut.phase = "saved"
    /\ aofFile' = Close(PM).aofFile
    /\ shut' = [shut EXCEPT !.phase = "closed"]
    /\ UNCHANGED <<dbVars, aofDisk, rdbDisk, ShutUnchanged>>

\* Shutdown returns and main returns
ShutExit ==
    /\ shut.phase = "closed"
    /\ shut' = [shut EXCEPT !.phase = "exited"]
    /\ UNCHANGED <<dbVars, aofFile, aofDisk, rdbDisk, ShutUnchanged>>

\* the clock, for as long as the process runs
ShutTick == shut.phase # "exited" /\ Tick

InitShut == InitWith(TRUE, TRUE)

NextShut ==
    \/ ShutCommand
    \/ ShutSweep
    \/ ShutSave
    \/ ShutSignal
    \/ ShutSnapshot
    \/ ShutClose
    \/ ShutExit
    \/ ShutTick

SpecShut == InitShut /\ [][NextShut]_vars

\* C21 (Shutdown drains in order): once Shutdown is requested no client
\* command is executed, so none changes the database after the final
\* snapshot and none calls WriteAOF after Manager.Close, also for clients
\* connected before.
C21_ShutdownDrains ==
    /\ shut.cmd \in {"", "running"}
    /\ shut.mut \notin {"saved", "closed"}
    /\ shut.wal # "closed"

\* C22 (the background tasks stop): the sweeper and the periodic save run
\* no sweep and no SaveRDB after the final snapshot is written and the
\* files are closed.
C22_BackgroundTasksStop ==
    /\ shut.sweep # "closed"
    /\ shut.save # "closed"

(***************************************************************************)
(* The lock specification: the goroutines of two connections, each call    *)
(* of the database in three steps: db.mu is taken (RLock in Get, Exists    *)
(* and TTL, Lock in Set, Del and Expire), the body runs, the deferred      *)
(* unlock runs.  A body that writes a map while another goroutine is       *)
(* inside the lock races with it: the Go runtime may stop the process with *)
(* "fatal error: concurrent map writes", or not notice.                    *)
(***************************************************************************)
LockRequests ==
    {Req("SET", <<KeyA, ValX>>), Req("EXPIRE", <<KeyA, Val1>>), Req("DEL", <<KeyA>>)}
    \cup {Req("GET", <<KeyA>>), Req("EXISTS", <<KeyA>>), Req("TTL", <<KeyA>>)}

\* the mode in which the one call of the database of the command takes db.mu
LockMode(verb) == IF verb \in {"GET", "EXISTS", "TTL"} THEN "RLock" ELSE "Lock"

LockUnchanged == <<aofEnabled, rdbEnabled, aofFile, aofDisk, rdbDisk, histVars, got, hist,
                   inAOF, applied, order, wireVars, savePc, stdout, snap, shut, codec>>

\* db.mu.Lock() or db.mu.RLock() returns
LockAcquire(c) ==
    \E cmd \in LockRequests :
        /\ server = "listening"
        /\ pc[c] = "read"
        /\ mu.writer = ""
        /\ LockMode(cmd.verb) = "Lock" => mu.readers = {}
        /\ mu' = IF LockMode(cmd.verb) = "Lock"
                 THEN [mu EXCEPT !.writer = c]
                 ELSE [mu EXCEPT !.readers = @ \cup {c}]
        /\ pc' = [pc EXCEPT ![c] = "locked"]
        /\ cur' = [cur EXCEPT ![c] = cmd]
        /\ UNCHANGED <<dbVars, now, server, LockUnchanged>>

\* the body of the call, between the lock and the deferred unlock
LockBody(c) ==
    LET db == Dispatch(DB, cur[c].verb, cur[c].args, now).db
        raced == db # DB /\ (mu.readers \cup {mu.writer}) \ {c, ""} # {}
    IN  /\ server = "listening"
        /\ pc[c] = "locked"
        /\ data' = db.data
        /\ expiry' = db.expiry
        /\ pc' = [pc EXCEPT ![c] = "unlock"]
        /\ \E fatal \in {FALSE} \cup (IF raced THEN {TRUE} ELSE {}) :
               server' = IF fatal THEN "fatal" ELSE server
        /\ UNCHANGED <<now, cur, mu, LockUnchanged>>

\* the deferred db.mu.Unlock() or db.mu.RUnlock()
LockRelease(c) ==
    /\ server = "listening"
    /\ pc[c] = "unlock"
    /\ mu' = [writer |-> IF mu.writer = c THEN "" ELSE mu.writer,
              readers |-> mu.readers \ {c}]
    /\ pc' = [pc EXCEPT ![c] = "read"]
    /\ UNCHANGED <<dbVars, now, cur, server, LockUnchanged>>

LockTick == server = "listening" /\ Tick

InitLock == InitWith(FALSE, FALSE)

NextLock ==
    \/ \E c \in Clients : LockAcquire(c)
    \/ \E c \in Clients : LockBody(c)
    \/ \E c \in Clients : LockRelease(c)
    \/ LockTick

SpecLock == InitLock /\ [][NextLock]_vars

\* C23 (writers are exclusive): every step that changes the value table or
\* the expiry index is taken while db.mu is held in writer mode, with no
\* other task inside the lock; the deletions of lazy expiry in GET, EXISTS
\* and TTL included.
C23_WritersExclusive ==
    [][(data' # data \/ expiry' # expiry) => (mu.writer # "" /\ mu.readers = {})]_vars

(***************************************************************************)
(* The snapshot specification: one SaveRDB at the grain of its calls of    *)
(* the database (Keys, then Get and TTL for every key of the slice, each   *)
(* of which takes and releases db.mu by itself), with the commands of the  *)
(* clients between them.  snap.keys is what is left of the slice,          *)
(* snap.data the map built so far, snap.seen the states the database went  *)
(* through since SaveRDB was called.  The specification follows one        *)
(* SaveRDB, the first the ticker starts, until it returns.                 *)
(***************************************************************************)
SnapRequests ==
    {Req("SET", <<k, v>>) : k \in {KeyA, KeyB}, v \in {ValX, Val1}}
    \cup {Req("EXPIRE", <<KeyA, Val1>>)}

SnapUnchanged == <<now, aofEnabled, rdbEnabled, aofFile, aofDisk, histVars, concVars,
                   wireVars, procVars, mu, shut, codec>>

\* SaveRDB is on its way
Saving == snap.pc \in {"get", "ttl"}

\* a command of a client
SnapCommand ==
    \E cmd \in SnapRequests :
        LET r == executeCommand(DB, PM, aofDisk, cmd, now, TRUE)
        IN  /\ snap.pc # "done"
            /\ data' = r.db.data
            /\ expiry' = r.db.expiry
            /\ snap' = [snap EXCEPT !.seen = IF Saving THEN @ \cup {r.db} ELSE @]
            /\ UNCHANGED <<rdbDisk, SnapUnchanged>>

\* SaveRDB up to keys := m.db.Keys(): the file is created and holds the
\* metadata
SnapKeys ==
    \E keys \in Orders(Keys(DB, now)) :
        /\ rdbEnabled
        /\ snap.pc = "idle"
        /\ rdbDisk' = [exists |-> TRUE, sections |-> 1,
                       meta |-> SaveRDB(DB, keys, now).file.meta, data |-> EmptyMap]
        /\ snap' = [pc |-> "get", keys |-> keys, data |-> EmptyMap, seen |-> {DB}]
        /\ UNCHANGED <<dbVars, SnapUnchanged>>

\* m.db.Get(key) for the next key of the slice
SnapGet ==
    /\ snap.pc = "get"
    /\ Len(snap.keys) > 0
    /\ LET key == Head(snap.keys)
           g == Get(DB, key, now)
       IN  /\ data' = g.db.data
           /\ expiry' = g.db.expiry
           /\ snap' = [snap EXCEPT !.pc = "ttl",
                                   !.data = IF g.ok THEN MapPut(@, key, GobString(g.val))
                                            ELSE @,
                                   !.seen = @ \cup {g.db}]
    /\ UNCHANGED <<rdbDisk, SnapUnchanged>>

\* m.db.TTL(key) for the same key
SnapTTL ==
    /\ snap.pc = "ttl"
    /\ LET key == Head(snap.keys)
           t == TTL(DB, key, now)
       IN  /\ data' = t.db.data
           /\ expiry' = t.db.expiry
           /\ snap' = [snap EXCEPT !.pc = "get",
                                   !.keys = Tail(@),
                                   !.data = IF t.ttl > 0
                                            THEN MapPut(@, TtlName(key), GobInt64(t.ttl))
                                            ELSE @,
                                   !.seen = @ \cup {t.db}]
    /\ UNCHANGED <<rdbDisk, SnapUnchanged>>

\* encoder.Encode(data), after the loop
SnapEncode ==
    /\ snap.pc = "get"
    /\ Len(snap.keys) = 0
    /\ rdbDisk' = [rdbDisk EXCEPT !.sections = 2, !.data = snap.data]
    /\ snap' = [snap EXCEPT !.pc = "done"]
    /\ UNCHANGED <<dbVars, SnapUnchanged>>

InitSnap == InitWith(FALSE, TRUE)

NextSnap == SnapCommand \/ SnapKeys \/ SnapGet \/ SnapTTL \/ SnapEncode

SpecSnap == InitSnap /\ [][NextSnap]_vars

\* the entries a SaveRDB that runs with no command in between writes for
\* the database db
ImageOf(db) ==
    SaveRDB(db, CHOOSE keys \in Orders(Keys(db, now)) : TRUE, now).file.data

\* C24 (a snapshot is a point-in-time copy): the entries one SaveRDB has
\* written are the entries of the key space as it was at one instant
\* between the call and the return of that SaveRDB, and hold no TTL for a
\* key whose value they do not hold.
C24_SnapshotPointInTime ==
    snap.pc = "done" =>
        /\ \E db \in snap.seen : rdbDisk.data = ImageOf(db)
        /\ \A k \in AllKeys :
               TtlName(k) \in DOMAIN rdbDisk.data => k \in DOMAIN rdbDisk.data

(***************************************************************************)
(* internal/protocol: Serialize and RESPParser.  A value of the codec is a *)
(* RESPValue whose Array is the sequence of its elements (empty for a      *)
(* value that is no array); the bytes are symbols, "CR" and "LF" among     *)
(* them.  NilValue is the nil *RESPValue that Parse returns, with a nil    *)
(* error, for an input it cannot read.                                     *)
(***************************************************************************)
NilValue == RESPValue("nil", <<>>, 0, FALSE, <<>>)

\* parseArray with a negative count: make([]*RESPValue, count) panics
PanicValue == RESPValue("panic", <<>>, 0, FALSE, <<>>)

RECURSIVE Serialize(_)
RECURSIVE SerializeEach(_)
SerializeEach(items) ==
    IF Len(items) = 0 THEN <<>>
    ELSE Serialize(Head(items)) \o SerializeEach(Tail(items))

Serialize(value) ==
    CASE value.Type = "+" -> <<"+">> \o value.Str \o CRLF
      [] value.Type = "-" -> <<"-">> \o value.Str \o CRLF
      [] value.Type = ":" -> <<":">> \o FormatInt(value.Num) \o CRLF
      [] value.Type = "$" ->
             IF value.Null THEN <<"$", "-", "1">> \o CRLF
             ELSE <<"$">> \o FormatInt(Len(value.Str)) \o CRLF \o value.Str \o CRLF
      [] value.Type = "*" ->
             <<"*">> \o FormatInt(Len(value.Array)) \o CRLF \o SerializeEach(value.Array)
      [] OTHER -> <<"-", "ERR unknown type">> \o CRLF

\* strings.Split(s, "\r\n"): piece is the one being read
RECURSIVE SplitFrom(_, _)
SplitFrom(s, piece) ==
    IF Len(s) = 0 THEN <<piece>>
    ELSE IF Len(s) >= 2 /\ s[1] = "CR" /\ s[2] = "LF"
    THEN <<piece>> \o SplitFrom(SubSeq(s, 3, Len(s)), <<>>)
    ELSE SplitFrom(Tail(s), Append(piece, Head(s)))

Split(s) == SplitFrom(s, <<>>)

\* parseBulkString: the length is used only to tell the null bulk string;
\* the string is the next line, whatever its length
parseBulkString(lines, index) ==
    LET length == Atoi(Tail(lines[index + 1]))
    IN  IF ~length.ok THEN [value |-> NilValue, index |-> index]
        ELSE IF length.num = -1
        THEN [value |-> RESPValue("$", <<>>, 0, TRUE, <<>>), index |-> index + 1]
        ELSE IF index + 1 >= Len(lines) THEN [value |-> NilValue, index |-> index]
        ELSE [value |-> RESPValue("$", lines[index + 2], 0, FALSE, <<>>),
              index |-> index + 2]

RECURSIVE parseValue(_, _)
RECURSIVE parseItems(_, _, _, _)
\* the loop of parseArray: count elements are still to read from currentIndex
parseItems(lines, currentIndex, count, array) ==
    IF count = 0
    THEN [value |-> RESPValue("*", <<>>, 0, FALSE, array), index |-> currentIndex]
    ELSE LET r == parseValue(lines, currentIndex)
         IN  IF r.value = NilValue THEN [value |-> NilValue, index |-> currentIndex]
             ELSE IF r.value = PanicValue THEN r
             ELSE parseItems(lines, r.index, count - 1, Append(array, r.value))

parseArray(lines, index) ==
    LET count == Atoi(Tail(lines[index + 1]))
    IN  IF ~count.ok THEN [value |-> NilValue, index |-> index]
        ELSE IF count.num < 0 THEN [value |-> PanicValue, index |-> index]
        ELSE parseItems(lines, index + 1, count.num, <<>>)

\* index counts from 0, as in the source
parseValue(lines, index) ==
    IF index >= Len(lines) THEN [value |-> NilValue, index |-> index]
    ELSE LET line == lines[index + 1]
         IN  IF Len(line) = 0 THEN [value |-> NilValue, index |-> index]
             ELSE CASE line[1] = "*" -> parseArray(lines, index)
                    [] line[1] = "$" -> parseBulkString(lines, index)
                    [] line[1] = "+" ->
                           [value |-> RESPValue("+", Tail(line), 0, FALSE, <<>>),
                            index |-> index + 1]
                    [] line[1] = "-" ->
                           [value |-> RESPValue("-", Tail(line), 0, FALSE, <<>>),
                            index |-> index + 1]
                    [] line[1] = ":" ->
                           LET num == ParseInt(Tail(line))
                           IN  IF ~num.ok THEN [value |-> NilValue, index |-> index]
                               ELSE [value |-> RESPValue(":", <<>>, num.num, FALSE, <<>>),
                                     index |-> index + 1]
                    [] OTHER -> [value |-> NilValue, index |-> index]

\* RESPParser.Parse: strings.Split never returns an empty slice, and the
\* error is nil whatever parseValue returns
Parse(input) == parseValue(Split(TrimSpace(input)), 0).value

(***************************************************************************)
(* The codec specification: a value is serialized, and the bytes are       *)
(* parsed.  The values are the scalars below and the arrays of at most     *)
(* MaxItems of them.                                                       *)
(***************************************************************************)
MaxItems == 2

SimpleStrs == {<<>>, <<"O", "K">>}

BulkStrs == {<<>>, <<"a">>, <<"a", "CR", "LF", "b">>}

CodecScalars ==
    {RESPValue(t, str, 0, FALSE, <<>>) : t \in {"+", "-"}, str \in SimpleStrs}
    \cup {RESPValue(":", <<>>, num, FALSE, <<>>) : num \in {MinInt64, -1, 0, MaxInt64}}
    \cup {RESPValue("$", str, 0, FALSE, <<>>) : str \in BulkStrs}
    \cup {RESPValue("$", <<>>, 0, TRUE, <<>>)}

CodecArrays ==
    UNION {{RESPValue("*", <<>>, 0, FALSE, items) : items \in [1..n -> CodecScalars]} :
           n \in 0..MaxItems}

CodecValues == CodecScalars \cup CodecArrays

CodecUnchanged == <<dbVars, now, pmVars, histVars, concVars, wireVars, procVars, mu, snap,
                    shut>>

CodecSerialize ==
    \E value \in CodecValues :
        /\ codec.pc = "idle"
        /\ codec' = [pc |-> "bytes", value |-> value, bytes |-> Serialize(value),
                     parsed |-> <<>>]
        /\ UNCHANGED CodecUnchanged

CodecParse ==
    /\ codec.pc = "bytes"
    /\ codec' = [codec EXCEPT !.pc = "parsed", !.parsed = Parse(codec.bytes)]
    /\ UNCHANGED CodecUnchanged

InitCodec == InitWith(FALSE, FALSE)

NextCodec == CodecSerialize \/ CodecParse

SpecCodec == InitCodec /\ [][NextCodec]_vars

\* the strings of the elements of an array of bulk strings that are not null
StrsOf(items) == [i \in DOMAIN items |-> items[i].Str]

IsBulks(value) ==
    /\ value.Type = "*"
    /\ \A i \in DOMAIN value.Array : value.Array[i].Type = "$" /\ ~value.Array[i].Null

\* C31 (codec round trip): the bytes Serialize gives for an array of bulk
\* strings are the frame of the grammar, the elements in order, and Parse
\* of the bytes Serialize gives for a value returns a value equal to it;
\* for simple strings, errors, integers, bulk strings (the empty one, the
\* null one and one that holds CR LF among them) and arrays of these.
C31_CodecRoundTrip ==
    /\ codec.pc # "idle" /\ IsBulks(codec.value) =>
           codec.bytes = Frame(StrsOf(codec.value.Array))
    /\ codec.pc = "parsed" => codec.parsed = codec.value

============================================================================
